---- MODULE Spec2Model ----
(***************************************************************************)
(* The conversation session of LO_Week2_code_assignment.py: the Streamlit  *)
(* script is re-run once per widget event; st.session_state carries        *)
(* messages, use_web_search, use_file_search and conversation_active from  *)
(* one run to the next.  A text is a sequence of tokens: a character of    *)
(* user or agent text is a one-character string, a fixed fragment of the   *)
(* script (a template piece, a role name) is one longer string.            *)
(***************************************************************************)
EXTENDS Integers, Sequences, FiniteSets, TLC

VARIABLES
    messages,             \* st.session_state.messages
    use_web_search,       \* st.session_state.use_web_search
    use_file_search,      \* st.session_state.use_file_search
    conversation_active,  \* st.session_state.conversation_active
    event,                \* the widget whose event started the current script run
    user_question,        \* what st.chat_input returned in the current run
    pc,                   \* "idle": the run is over; "awaiting": blocked in Runner.run
    agent_tools,          \* tools=... of the Agent built for the current run
    prompt,               \* the prompt handed to Runner.run in the current run
    response,             \* result.final_output of the current run
    error,                \* the error the current run shows to the user
    html_data,            \* data of the Save Conversation download button
    turn_start,           \* messages as the current run found them
    runner_calls          \* Runner.run invocations made by the current run

vars == <<messages, use_web_search, use_file_search, conversation_active, event,
          user_question, pc, agent_tools, prompt, response, error, html_data,
          turn_start, runner_calls>>

-----------------------------------------------------------------------------
(* Bounds of the model *)

MaxMessages == 4
MaxRenderMessages == 2
MaxContentLen == 1

(* Inputs *)

Questions == { <<"a">>, <<"<", "&">> }
Answers == { <<"b">>, <<">", "\n">> }
Alphabet == { "a", "&", "<", ">", "\n" }

None == <<"None">>
NoDocument == <<"no download button">>
NoError == "no error"
NoToolError == "Please select at least one search source in the sidebar"
ExceptionShown == "uncaught exception"

WebSearchToggle == "web_search_toggle"
FileSearchToggle == "file_search_toggle"
ClearButton == "Clear Conversation"
EndButton == "End Conversation"
ChatInput == "chat_input"
SessionStart == "session start"

WebSearchTool == "WebSearchTool"
FileSearchTool == "FileSearchTool"

-----------------------------------------------------------------------------
(* Helpers on sequences *)

Range(s) == { s[i] : i \in DOMAIN s }

IsPrefix(s, t) == Len(s) <= Len(t) /\ SubSeq(t, 1, Len(s)) = s

BoundedSeq(S, n) == UNION { [1..k -> S] : k \in 0..n }

RECURSIVE Flatten(_)
Flatten(ss) == IF ss = <<>> THEN <<>> ELSE Head(ss) \o Flatten(Tail(ss))

\* sep.join(lines)
RECURSIVE Join(_, _)
Join(sep, lines) ==
    IF lines = <<>> THEN <<>>
    ELSE IF Len(lines) = 1 THEN Head(lines)
    ELSE Head(lines) \o sep \o Join(sep, Tail(lines))

\* s.replace(old, new) for a one-character old
RECURSIVE Replace(_, _, _)
Replace(s, old, new) ==
    IF s = <<>> THEN <<>>
    ELSE (IF Head(s) = old THEN new ELSE <<Head(s)>>) \o Replace(Tail(s), old, new)

Message(role, content) == [role |-> role, content |-> content]

-----------------------------------------------------------------------------
(* create_research_assistant, get_research_response *)

\* Mutant: the tool list ignores the toggles.
create_research_assistant_AllTools == <<WebSearchTool, FileSearchTool>>

create_research_assistant ==
    (IF use_web_search THEN <<WebSearchTool>> ELSE <<>>)
        \o (IF use_file_search THEN <<FileSearchTool>> ELSE <<>>)

ContextLine(msg) == <<msg.role, ":", " ">> \o msg.content

Context(history) ==
    Join(<<"\n">>, [i \in 1..Len(history) |-> ContextLine(history[i])])

BuildPrompt(question, history) ==
    <<"Context of our conversation:", "\n">> \o Context(history)
        \o <<"\n", "\n", "Current question: ">> \o question

-----------------------------------------------------------------------------
(* format_messages_as_html *)

HtmlHeader == <<"<html><head><style>...</style></head><body>",
                "<h2>Conversation Transcript</h2>">>
HtmlFooter == <<"</body></html>">>
DivOpen == "<div class=\"message "
StrongOpen == "\"><strong>"
StrongClose == ":</strong><br>"
DivClose == "</div>"

Capitalize(role) ==
    CASE role = "user" -> "User"
      [] role = "assistant" -> "Assistant"

RoleClass(role) == IF role = "user" THEN "user" ELSE "assistant"

\* Mutant: '&' is replaced after '<' and '>', re-escaping their entities.
EscapeContent_AmpersandLast(content) ==
    Replace(Replace(Replace(Replace(content,
        "<", <<"&", "l", "t", ";">>),
        ">", <<"&", "g", "t", ";">>),
        "&", <<"&", "a", "m", "p", ";">>),
        "\n", <<"<", "b", "r", ">">>)

EscapeContent(content) ==
    Replace(Replace(Replace(Replace(content,
        "&", <<"&", "a", "m", "p", ";">>),
        "<", <<"&", "l", "t", ";">>),
        ">", <<"&", "g", "t", ";">>),
        "\n", <<"<", "b", "r", ">">>)

HtmlBlock(msg) ==
    <<DivOpen, RoleClass(msg.role), StrongOpen, Capitalize(msg.role), StrongClose>>
        \o EscapeContent(msg.content) \o <<DivClose>>

format_messages_as_html(msgs) ==
    HtmlHeader \o Flatten([i \in 1..Len(msgs) |-> HtmlBlock(msgs[i])]) \o HtmlFooter

-----------------------------------------------------------------------------
(* The session *)

TerminalMessage ==
    Message("assistant",
            <<"Conversation ended. Leave the window open to restart it anytime. Otherwise you may close the browser window.">>)

\* Mutant: the send-time check is missing.
CanSend_Unchecked == TRUE

CanSend == use_web_search \/ use_file_search

Init ==
    /\ messages = <<>>
    /\ use_web_search = TRUE
    /\ use_file_search = TRUE
    /\ conversation_active = TRUE
    /\ event = SessionStart
    /\ user_question = None
    /\ pc = "idle"
    /\ agent_tools = None
    /\ prompt = None
    /\ response = None
    /\ error = NoError
    /\ html_data = format_messages_as_html(<<>>)
    /\ turn_start = <<>>
    /\ runner_calls = 0

\* A run started by a widget other than the chat input: nothing is asked.
NoQuestion ==
    /\ user_question' = None
    /\ agent_tools' = None
    /\ prompt' = None
    /\ response' = None
    /\ error' = NoError
    /\ runner_calls' = 0
    /\ turn_start' = messages
    /\ pc' = "idle"

ToggleWebSearch ==
    /\ pc = "idle"
    /\ event' = WebSearchToggle
    /\ use_web_search' = ~use_web_search
    /\ html_data' = format_messages_as_html(messages)
    /\ NoQuestion
    /\ UNCHANGED <<messages, use_file_search, conversation_active>>

ToggleFileSearch ==
    /\ pc = "idle"
    /\ event' = FileSearchToggle
    /\ use_file_search' = ~use_file_search
    /\ html_data' = format_messages_as_html(messages)
    /\ NoQuestion
    /\ UNCHANGED <<messages, use_web_search, conversation_active>>

\* Mutant: clearing starts the conversation over.
ClearConversation_Reactivate ==
    /\ pc = "idle"
    /\ event' = ClearButton
    /\ messages' = <<>>
    /\ conversation_active' = TRUE
    /\ html_data' = format_messages_as_html(messages')
    /\ NoQuestion
    /\ UNCHANGED <<use_web_search, use_file_search>>

\* Mutant: clearing also puts the tool selection back to its defaults.
ClearConversation_ResetTools ==
    /\ pc = "idle"
    /\ event' = ClearButton
    /\ messages' = <<>>
    /\ use_web_search' = TRUE
    /\ use_file_search' = TRUE
    /\ html_data' = format_messages_as_html(messages')
    /\ NoQuestion
    /\ UNCHANGED conversation_active

ClearConversation ==
    /\ pc = "idle"
    /\ event' = ClearButton
    /\ messages' = <<>>
    /\ html_data' = format_messages_as_html(messages')
    /\ NoQuestion
    /\ UNCHANGED <<use_web_search, use_file_search, conversation_active>>

\* Mutant: an idempotence guard, the terminal message is appended only once.
EndConversation_Guarded ==
    /\ pc = "idle"
    /\ Len(messages) < MaxMessages
    /\ event' = EndButton
    /\ conversation_active' = FALSE
    /\ messages' = IF conversation_active THEN Append(messages, TerminalMessage)
                   ELSE messages
    /\ html_data' = format_messages_as_html(messages')
    /\ NoQuestion
    /\ UNCHANGED <<use_web_search, use_file_search>>

EndConversation ==
    /\ pc = "idle"
    /\ Len(messages) < MaxMessages
    /\ event' = EndButton
    /\ conversation_active' = FALSE
    /\ messages' = Append(messages, TerminalMessage)
    /\ html_data' = format_messages_as_html(messages')
    /\ NoQuestion
    /\ UNCHANGED <<use_web_search, use_file_search>>

\* The chat input handler up to the point where it blocks in Runner.run
\* (or, with no tool selected, to the end of the run).
AskQuestion(q) ==
    /\ pc = "idle"
    /\ event' = ChatInput
    /\ user_question' = q
    /\ turn_start' = messages
    /\ response' = None
    /\ IF ~CanSend
       THEN /\ error' = NoToolError
            /\ messages' = messages
            /\ agent_tools' = None
            /\ prompt' = None
            /\ runner_calls' = 0
            /\ html_data' = format_messages_as_html(messages)
            /\ pc' = "idle"
       ELSE /\ Len(messages) + 2 <= MaxMessages
            /\ error' = NoError
            /\ messages' = Append(messages, Message("user", q))
            /\ agent_tools' = create_research_assistant
            /\ prompt' = BuildPrompt(q, messages')
            /\ runner_calls' = 1
            /\ html_data' = NoDocument
            /\ pc' = "awaiting"
    /\ UNCHANGED <<use_web_search, use_file_search, conversation_active>>

\* Mutant: the answer takes the place of the question instead of following it.
RunnerReturns_Overwrite(a) ==
    /\ pc = "awaiting"
    /\ response' = a
    /\ messages' = [messages EXCEPT ![Len(messages)] = Message("assistant", a)]
    /\ html_data' = format_messages_as_html(messages')
    /\ pc' = "idle"
    /\ UNCHANGED <<use_web_search, use_file_search, conversation_active, event,
                   user_question, agent_tools, prompt, error, turn_start,
                   runner_calls>>

\* Runner.run returns: the rest of the handler and of the run.
RunnerReturns(a) ==
    /\ pc = "awaiting"
    /\ response' = a
    /\ messages' = Append(messages, Message("assistant", a))
    /\ html_data' = format_messages_as_html(messages')
    /\ pc' = "idle"
    /\ UNCHANGED <<use_web_search, use_file_search, conversation_active, event,
                   user_question, agent_tools, prompt, error, turn_start,
                   runner_calls>>

\* Mutant: the failure is recorded as the assistant's answer.
RunnerFails_Swallow ==
    /\ pc = "awaiting"
    /\ error' = ExceptionShown
    /\ messages' = Append(messages, Message("assistant", <<"error">>))
    /\ pc' = "idle"
    /\ UNCHANGED <<use_web_search, use_file_search, conversation_active,
                   event, user_question, agent_tools, prompt, response, html_data,
                   turn_start, runner_calls>>

\* Mutant: the failure takes the unanswered question back out of the store.
RunnerFails_Rollback ==
    /\ pc = "awaiting"
    /\ error' = ExceptionShown
    /\ messages' = turn_start
    /\ pc' = "idle"
    /\ UNCHANGED <<use_web_search, use_file_search, conversation_active,
                   event, user_question, agent_tools, prompt, response, html_data,
                   turn_start, runner_calls>>

\* Runner.run raises: the exception ends the run, which shows it.
RunnerFails ==
    /\ pc = "awaiting"
    /\ error' = ExceptionShown
    /\ pc' = "idle"
    /\ UNCHANGED <<messages, use_web_search, use_file_search, conversation_active,
                   event, user_question, agent_tools, prompt, response, html_data,
                   turn_start, runner_calls>>

Next ==
    \/ ToggleWebSearch
    \/ ToggleFileSearch
    \/ ClearConversation
    \/ EndConversation
    \/ \E q \in Questions : AskQuestion(q)
    \/ \E a \in Answers : RunnerReturns(a)
    \/ RunnerFails

Spec == Init /\ [][Next]_vars


-----------------------------------------------------------------------------
(* The transcript export on its own: any message list within the bounds,   *)
(* rendered by the Save Conversation step of a script run.                  *)

RenderMessages ==
    { Message(r, c) : r \in {"user", "assistant"},
                      c \in BoundedSeq(Alphabet, MaxContentLen) }

InitRender ==
    /\ messages \in BoundedSeq(RenderMessages, MaxRenderMessages)
    /\ use_web_search = TRUE
    /\ use_file_search = TRUE
    /\ conversation_active = TRUE
    /\ event = SessionStart
    /\ user_question = None
    /\ pc = "idle"
    /\ agent_tools = None
    /\ prompt = None
    /\ response = None
    /\ error = NoError
    /\ html_data = NoDocument
    /\ turn_start = messages
    /\ runner_calls = 0

SaveConversation ==
    /\ pc = "idle"
    /\ html_data' = format_messages_as_html(messages)
    /\ UNCHANGED <<messages, use_web_search, use_file_search, conversation_active,
                   event, user_question, pc, agent_tools, prompt, response, error,
                   turn_start, runner_calls>>

NextRender == SaveConversation

SpecRender == InitRender /\ [][NextRender]_vars

-----------------------------------------------------------------------------
(* Properties of the session *)

UserTurn(q) == Message("user", q)
AssistantTurn(a) == Message("assistant", a)

\* C1: a question submitted while both use_web_search and use_file_search are
\* false is rejected: the run shows the "select at least one search source"
\* error, the store is the same after the run as before it, and the run makes
\* no Runner.run call and builds no request.
C1_RejectedWithoutTools ==
    [][(pc = "idle" /\ event' = ChatInput /\ ~use_web_search /\ ~use_file_search)
          => /\ messages' = messages
             /\ error' = NoToolError
             /\ runner_calls' = 0
             /\ prompt' = None
             /\ agent_tools' = None
             /\ pc' = "idle"]_vars

C1_Witness ==
    /\ event = ChatInput
    /\ ~use_web_search
    /\ ~use_file_search
    /\ error = NoToolError
    /\ user_question \in Questions
    /\ Len(messages) > 0

\* C2: when a question is sent (a tool is enabled) and Runner.run fails, the
\* run ends with the store being the store it found followed by the user's
\* message and nothing else, the failure is shown, and Runner.run was called
\* exactly once.
C2_FailureLeavesUnansweredQuestion ==
    (event = ChatInput /\ pc = "idle" /\ runner_calls > 0 /\ response = None)
        => /\ messages = Append(turn_start, UserTurn(user_question))
           /\ messages[Len(messages)].role = "user"
           /\ error = ExceptionShown
           /\ runner_calls = 1

C2_Witness ==
    /\ event = ChatInput
    /\ pc = "idle"
    /\ error = ExceptionShown
    /\ Len(turn_start) > 0
    /\ Len(messages) = Len(turn_start) + 1

\* C3: when a question q is sent and Runner.run returns a, the store after
\* the run is the store before it followed by {user, q} and then
\* {assistant, a}, whether or not the conversation was ended; while the run
\* is blocked in its one Runner.run call only {user, q} has been appended.
C3_TurnAppendsQuestionThenAnswer ==
    /\ pc = "awaiting"
          => /\ messages = Append(turn_start, UserTurn(user_question))
             /\ runner_calls = 1
             /\ response = None
    /\ (event = ChatInput /\ pc = "idle" /\ response # None)
          => /\ messages = turn_start
                    \o <<UserTurn(user_question), AssistantTurn(response)>>
             /\ runner_calls = 1
             /\ error = NoError

C3_Witness ==
    /\ event = ChatInput
    /\ pc = "idle"
    /\ response \in Answers
    /\ ~conversation_active
    /\ Len(turn_start) > 0

\* C4: for every run that reaches Runner.run, the context of the prompt is
\* built from exactly the messages the store held before the current
\* question, one "role: content" line each, and the question follows only
\* after "Current question: ".
C4_ContextIsPriorMessages ==
    [][(pc = "idle" /\ pc' = "awaiting")
          => prompt' = BuildPrompt(user_question', messages)]_vars

\* C5: each End Conversation run sets conversation_active to false and
\* appends exactly the fixed terminal assistant message to the store,
\* whatever the state before it: an already ended conversation gets one more.
C5_EndAppendsTerminalMessage ==
    [][event' = EndButton
          => /\ conversation_active' = FALSE
             /\ messages' = Append(messages, TerminalMessage)
             /\ TerminalMessage.role = "assistant"]_vars

C5_Witness ==
    /\ event = EndButton
    /\ ~conversation_active
    /\ Len(messages) >= 3
    /\ messages[Len(messages)] = TerminalMessage
    /\ messages[Len(messages) - 1] = TerminalMessage
    /\ turn_start = SubSeq(messages, 1, Len(messages) - 1)

\* C6: the session starts with conversation_active true, and no step sets
\* conversation_active back to true once it is false.
C6_EndedIsTerminal ==
    /\ conversation_active = TRUE
    /\ [][conversation_active = FALSE => conversation_active' = FALSE]_vars

C6_Witness ==
    /\ ~conversation_active
    /\ event = ClearButton
    /\ messages = <<>>

\* C7: every step other than a Clear Conversation run keeps the store it
\* found as a prefix of the store it leaves, adding at most one message.
C7_AppendOnlyExceptClear ==
    [][event' # ClearButton
          => /\ IsPrefix(messages, messages')
             /\ Len(messages') <= Len(messages) + 1]_vars

C7_Witness ==
    /\ event = ChatInput
    /\ pc = "idle"
    /\ error = ExceptionShown
    /\ Len(messages) = MaxMessages - 1

\* C8: a Clear Conversation run leaves the store empty and use_web_search,
\* use_file_search and conversation_active as they were.
C8_ClearOnlyEmptiesStore ==
    [][event' = ClearButton
          => /\ messages' = <<>>
             /\ use_web_search' = use_web_search
             /\ use_file_search' = use_file_search
             /\ conversation_active' = conversation_active]_vars

C8_Witness ==
    /\ event = ClearButton
    /\ messages = <<>>
    /\ Len(turn_start) = MaxMessages
    /\ ~conversation_active
    /\ ~use_web_search
    /\ use_file_search

\* C10: whenever a run is in Runner.run, the agent's tool list holds the web
\* search tool iff use_web_search and the file search tool iff
\* use_file_search, each at most once, and is not empty.
C10_ToolsFollowToggles ==
    pc = "awaiting"
        => /\ (WebSearchTool \in Range(agent_tools)) <=> use_web_search
           /\ (FileSearchTool \in Range(agent_tools)) <=> use_file_search
           /\ Range(agent_tools) \subseteq {WebSearchTool, FileSearchTool}
           /\ Len(agent_tools) = Cardinality(Range(agent_tools))
           /\ agent_tools # <<>>

C10_Witness ==
    /\ pc = "awaiting"
    /\ agent_tools = <<FileSearchTool>>
    /\ ~use_web_search

-----------------------------------------------------------------------------
(* Properties of the transcript export *)

Positions(html, token) == { i \in DOMAIN html : html[i] = token }

\* The k-th smallest element of a set of positions
Nth(S, k) == CHOOSE i \in S : Cardinality({ j \in S : j < i }) = k - 1

EntityOf(c) ==
    CASE c = "&" -> <<"&", "a", "m", "p", ";">>
      [] c = "<" -> <<"&", "l", "t", ";">>
      [] c = ">" -> <<"&", "g", "t", ";">>
      [] c = "\n" -> <<"<", "b", "r", ">">>
      [] OTHER -> <<c>>

Entities(content) == Flatten([i \in 1..Len(content) |-> EntityOf(content[i])])

LineBreak == <<"<", "b", "r", ">">>

\* Every '<' and '>' of an escaped content belongs to a <br>.
OnlyLineBreakTags(body) ==
    \A i \in DOMAIN body :
        /\ body[i] = "<" => (i + 3 <= Len(body) /\ SubSeq(body, i, i + 3) = LineBreak)
        /\ body[i] = ">" => (i >= 4 /\ SubSeq(body, i - 3, i) = LineBreak)

\* C9: the rendered document holds exactly one block per message, in store
\* order, labelled with the message's role, whose content is the message's
\* content with every '&', '<' and '>' replaced by its own entity (and every
\* newline by <br>), so that no '<' or '>' of a content is left raw.
C9_RenderEscapesEachMessage ==
    html_data # NoDocument =>
        LET starts == Positions(html_data, DivOpen)
            ends == Positions(html_data, DivClose)
        IN  /\ Cardinality(starts) = Len(messages)
            /\ Cardinality(ends) = Len(messages)
            /\ \A k \in 1..Len(messages) :
                 LET s == Nth(starts, k)
                     e == Nth(ends, k)
                     body == SubSeq(html_data, s + 5, e - 1)
                 IN  /\ s + 4 < e
                     /\ k < Len(messages) => e < Nth(starts, k + 1)
                     /\ html_data[s + 1] = messages[k].role
                     /\ messages[k].role = "user" => html_data[s + 3] = "User"
                     /\ messages[k].role = "assistant" => html_data[s + 3] = "Assistant"
                     /\ body = Entities(messages[k].content)
                     /\ OnlyLineBreakTags(body)

C9_Witness ==
    /\ html_data # NoDocument
    /\ Len(messages) = 2
    /\ messages[1] = Message("user", <<"<">>)
    /\ messages[2] = Message("assistant", <<"&">>)
    /\ Cardinality(Positions(html_data, "<")) = 0

====
